---- MODULE Spec2Model ----
(***************************************************************************)
(* Model of src/index.ts: the note server's path validation, its four      *)
(* tools (read_notes, search_notes, write_note, update_note) and the file  *)
(* system they act on.                                                     *)
(*                                                                         *)
(* Strings are sequences of one-character strings, so that startsWith,     *)
(* endsWith, split, toLowerCase and path.normalize are computed character  *)
(* by character, as the JavaScript does.                                   *)
(***************************************************************************)
EXTENDS Integers, Sequences, FiniteSets, TLC

VARIABLES
  fs,           \* the file system
  enableWrite,  \* config.enableWrite
  calls,        \* the tool calls in flight or just answered, one per client slot
  ncalls,       \* calls made so far
  nwrites       \* successful fs.writeFile calls so far

vars == <<fs, enableWrite, calls, ncalls, nwrites>>

----------------------------------------------------------------------------
(* Bounds of the model *)

\* calls the client makes in one run
MaxCalls == 2
\* longest paths array of a read_notes call
MaxPaths == 2

----------------------------------------------------------------------------
(* Strings *)

Sep == "/"
NL == "\n"

StartsWith(s, p) == Len(p) <= Len(s) /\ SubSeq(s, 1, Len(p)) = p

EndsWith(s, p) == Len(p) <= Len(s) /\ SubSeq(s, Len(s) - Len(p) + 1, Len(s)) = p

\* String.prototype.slice(n)
Slice(s, n) == SubSeq(s, n + 1, Len(s))

LowerChar(c) ==
  CASE c = "A" -> "a"
    [] c = "B" -> "b"
    [] c = "M" -> "m"
    [] c = "D" -> "d"
    [] c = "V" -> "v"
    [] OTHER -> c

toLowerCase(s) == [i \in DOMAIN s |-> LowerChar(s[i])]

RECURSIVE SplitAcc(_, _, _, _)
SplitAcc(s, i, cur, acc) ==
  IF i > Len(s) THEN Append(acc, cur)
  ELSE IF s[i] = Sep THEN SplitAcc(s, i + 1, <<>>, Append(acc, cur))
  ELSE SplitAcc(s, i + 1, Append(cur, s[i]), acc)

\* s.split(path.sep): empty pieces are kept
Split(s) == SplitAcc(s, 1, <<>>, <<>>)

RECURSIVE JoinSep(_)
JoinSep(parts) ==
  IF parts = <<>> THEN <<>>
  ELSE IF Len(parts) = 1 THEN parts[1]
  ELSE parts[1] \o <<Sep>> \o JoinSep(Tail(parts))

\* first index >= i at which pat occurs in s, 0 when there is none
RECURSIVE IndexFrom(_, _, _)
IndexFrom(s, pat, i) ==
  IF i + Len(pat) - 1 > Len(s) THEN 0
  ELSE IF SubSeq(s, i, i + Len(pat) - 1) = pat THEN i
  ELSE IndexFrom(s, pat, i + 1)

\* String.prototype.includes
Includes(s, pat) == IndexFrom(s, pat, 1) # 0

\* String.prototype.replace with a string pattern: the first occurrence only
ReplaceFirst(s, pat, by) ==
  LET i == IndexFrom(s, pat, 1)
  IN IF i = 0 THEN s
     ELSE SubSeq(s, 1, i - 1) \o by \o SubSeq(s, i + Len(pat), Len(s))

----------------------------------------------------------------------------
(* node's path module, posix flavour *)

isAbsolute(p) == Len(p) > 0 /\ p[1] = Sep

\* normalizeString: drops "" and ".", lets ".." remove the segment before it
RECURSIVE NormSegs(_, _, _)
NormSegs(parts, acc, allowAboveRoot) ==
  IF parts = <<>> THEN acc
  ELSE LET h == Head(parts)
           t == Tail(parts)
       IN IF h = <<>> \/ h = <<".">> THEN NormSegs(t, acc, allowAboveRoot)
          ELSE IF h = <<".", ".">>
            THEN IF acc # <<>> /\ acc[Len(acc)] # <<".", ".">>
                   THEN NormSegs(t, SubSeq(acc, 1, Len(acc) - 1), allowAboveRoot)
                 ELSE IF allowAboveRoot THEN NormSegs(t, Append(acc, h), allowAboveRoot)
                 ELSE NormSegs(t, acc, allowAboveRoot)
          ELSE NormSegs(t, Append(acc, h), allowAboveRoot)

pathNormalize(p) ==
  IF p = <<>> THEN <<".">>
  ELSE LET abs == isAbsolute(p)
           trailing == p[Len(p)] = Sep
           body == JoinSep(NormSegs(Split(p), <<>>, ~abs))
       IN IF body = <<>>
            THEN (IF abs THEN <<Sep>> ELSE IF trailing THEN <<".", Sep>> ELSE <<".">>)
          ELSE (IF abs THEN <<Sep>> ELSE <<>>) \o body \o (IF trailing THEN <<Sep>> ELSE <<>>)

\* path.join(a, b)
pathJoin(a, b) ==
  IF a = <<>> /\ b = <<>> THEN <<".">>
  ELSE IF a = <<>> THEN pathNormalize(b)
  ELSE IF b = <<>> THEN pathNormalize(a)
  ELSE pathNormalize(a \o <<Sep>> \o b)

\* path.resolve(from, to): the rightmost absolute argument wins; no trailing separator
pathResolve(from, to) ==
  LET whole == IF isAbsolute(to) THEN to ELSE from \o <<Sep>> \o to
      body == JoinSep(NormSegs(Split(whole), <<>>, FALSE))
  IN <<Sep>> \o body

\* index of the last separator of p that ends the directory part, 0 when none
RECURSIVE DirEnd(_, _, _)
DirEnd(p, i, matchedSlash) ==
  IF i < 2 THEN 0
  ELSE IF p[i] = Sep
    THEN (IF ~matchedSlash THEN i ELSE DirEnd(p, i - 1, matchedSlash))
  ELSE DirEnd(p, i - 1, FALSE)

\* path.dirname
pathDirname(p) ==
  IF p = <<>> THEN <<".">>
  ELSE LET end == DirEnd(p, Len(p), TRUE)
       IN IF end = 0 THEN (IF isAbsolute(p) THEN <<Sep>> ELSE <<".">>)
          ELSE IF isAbsolute(p) /\ end = 2 THEN <<Sep, Sep>>
          ELSE SubSeq(p, 1, end - 1)

----------------------------------------------------------------------------
(* The process environment *)

\* os.homedir()
HomeDir == <<"/", "o">>

\* process.cwd()
Cwd == <<"/", "o">>

\* config.vaultPath as given on the command line
VaultPath == <<"/", "v">>

----------------------------------------------------------------------------
(* The file system: a function from the absolute path of every existing    *)
(* entry to its node.  A path outside its domain does not exist.           *)

File(c) == [kind |-> "file", data |-> c, listable |-> TRUE]
Dir == [kind |-> "dir", data |-> <<>>, listable |-> TRUE]
\* a directory the server's user may traverse but not list (readdir: EACCES)
DirNoList == [kind |-> "dir", data |-> <<>>, listable |-> FALSE]
\* a symbolic link; data is its absolute target
Link(t) == [kind |-> "link", data |-> t, listable |-> TRUE]
None == [kind |-> "none", data |-> <<>>, listable |-> FALSE]

Lookup(f, p) == IF p \in DOMAIN f THEN f[p] ELSE None

Ok(v) == [ok |-> TRUE, val |-> v, err |-> "none"]
Err(e) == [ok |-> FALSE, val |-> <<>>, err |-> e]

\* the non-empty segments of a path
Segs(p) == SelectSeq(Split(p), LAMBDA x : x # <<>>)

\* follows the segments `parts` from the resolved directory `cur`
RECURSIVE RealFrom(_, _, _)
RealFrom(f, cur, parts) ==
  IF parts = <<>> THEN Ok(IF cur = <<>> THEN <<Sep>> ELSE cur)
  ELSE LET next == cur \o <<Sep>> \o Head(parts)
           node == Lookup(f, next)
       IN CASE node.kind = "none" -> Err("ENOENT")
            [] node.kind = "link" -> RealFrom(f, <<>>, Segs(node.data) \o Tail(parts))
            [] node.kind = "file" ->
                 IF Tail(parts) = <<>> THEN Ok(next) ELSE Err("ENOTDIR")
            [] OTHER -> RealFrom(f, next, Tail(parts))

\* fs.realpath of an absolute path
realpath(f, p) == RealFrom(f, <<>>, Segs(p))

\* fs.readFile(p, "utf-8")
readFile(f, p) ==
  LET rp == realpath(f, p)
  IN IF ~rp.ok THEN Err(rp.err)
     ELSE IF Lookup(f, rp.val).kind = "dir" THEN Err("EISDIR")
     ELSE Ok(Lookup(f, rp.val).data)

\* fs.writeFile(p, c, "utf-8"): the file system after it, or the error
writeFile(f, p, c) ==
  LET rp == realpath(f, p)
  IN IF rp.ok
       THEN (IF Lookup(f, rp.val).kind = "dir" THEN Err("EISDIR")
             ELSE Ok((rp.val :> File(c)) @@ f))
     ELSE LET parent == realpath(f, pathDirname(p))
              name == Segs(p)[Len(Segs(p))]
          IN IF ~parent.ok THEN Err("ENOENT")
             ELSE IF Lookup(f, parent.val).kind # "dir" THEN Err("ENOTDIR")
             ELSE Ok(((IF parent.val = <<Sep>> THEN <<>> ELSE parent.val)
                        \o <<Sep>> \o name :> File(c)) @@ f)

\* fs.access(p)
access(f, p) == realpath(f, p).ok

\* fs.mkdir(p, {recursive: true}): creates every missing directory on the way
RECURSIVE MkdirFrom(_, _, _)
MkdirFrom(f, cur, parts) ==
  IF parts = <<>> THEN Ok(f)
  ELSE LET next == cur \o <<Sep>> \o Head(parts)
           node == Lookup(f, next)
       IN CASE node.kind = "none" -> MkdirFrom((next :> Dir) @@ f, next, Tail(parts))
            [] node.kind = "file" -> Err("ENOTDIR")
            [] node.kind = "link" ->
                 LET rp == realpath(f, next)
                 IN IF rp.ok /\ Lookup(f, rp.val).kind = "dir"
                      THEN MkdirFrom(f, rp.val, Tail(parts))
                    ELSE Err("ENOTDIR")
            [] OTHER -> MkdirFrom(f, next, Tail(parts))

mkdirRecursive(f, p) == MkdirFrom(f, <<>>, Segs(p))

\* the names fs.readdir(dir) lists, or the error
Children(f, dir) ==
  {p \in DOMAIN f : Len(p) > Len(dir) + 1
                    /\ SubSeq(p, 1, Len(dir) + 1) = dir \o <<Sep>>
                    /\ ~Includes(SubSeq(p, Len(dir) + 2, Len(p)), <<Sep>>)}

----------------------------------------------------------------------------
(* src/index.ts: normalisation and path validation *)

\* lines 51-53
normalizePath(p) == toLowerCase(pathNormalize(p))

\* lines 55-60
expandHome(filepath) ==
  IF StartsWith(filepath, <<"~", Sep>>) \/ filepath = <<"~">>
    THEN pathJoin(HomeDir, Slice(filepath, 1))
  ELSE filepath

\* line 63
vaultDirectories == <<normalizePath(pathResolve(Cwd, expandHome(VaultPath)))>>

\* lines 93-95, 108-110, 123-125: a plain string prefix test
IsAllowed(normalized) ==
  \E i \in DOMAIN vaultDirectories : StartsWith(normalized, vaultDirectories[i])

\* lines 119-135: the catch block, reached when realpath fails and also when
\* the symlink check inside the try block throws
ParentCheck(f, absolute) ==
  LET parentDir == pathDirname(absolute)
      realParentPath == realpath(f, parentDir)
  IN IF realParentPath.ok /\ IsAllowed(normalizePath(realParentPath.val))
       THEN Ok(absolute)
     ELSE \* both the ENOENT and the "parent outside" throw land in the inner catch
       Err("ParentMissing")

\* lines 78-136
validatePath(f, requestedPath) ==
  LET pathParts == Split(requestedPath)
  IN IF \E i \in DOMAIN pathParts : StartsWith(pathParts[i], <<".">>)
       THEN Err("HiddenPathDenied")
     ELSE
       LET expandedPath == expandHome(requestedPath)
           absolute == IF isAbsolute(expandedPath)
                         THEN pathResolve(<<Sep>>, expandedPath)
                       ELSE pathResolve(Cwd, expandedPath)
           normalizedRequested == normalizePath(absolute)
       IN IF ~IsAllowed(normalizedRequested) THEN Err("OutsideVault")
          ELSE LET realPath == realpath(f, absolute)
               IN IF realPath.ok /\ IsAllowed(normalizePath(realPath.val))
                    THEN Ok(realPath.val)
                  ELSE ParentCheck(f, absolute)

\* lines 139-145
ensureDirectory(f, dirPath) ==
  IF access(f, dirPath) THEN Ok(f) ELSE mkdirRecursive(f, dirPath)

----------------------------------------------------------------------------
(* Regular expressions, for the queries of search_notes: literal            *)
(* characters, "." and ".*"; a "(" that is never closed does not compile.   *)

\* query.replace(/[*]/g, ".*")
RECURSIVE StarToDotStar(_)
StarToDotStar(q) ==
  IF q = <<>> THEN <<>>
  ELSE (IF Head(q) = "*" THEN <<".", "*">> ELSE <<Head(q)>>) \o StarToDotStar(Tail(q))

\* new RegExp(src, "i") throws on this source
RegexInvalid(src) == \E i \in DOMAIN src : src[i] = "("

\* src matches s from position j on (case already folded)
RECURSIVE MatchHere(_, _, _)
MatchHere(src, s, j) ==
  IF src = <<>> THEN TRUE
  ELSE IF Len(src) >= 2 /\ src[2] = "*"
    THEN \E k \in j..(Len(s) + 1) :
           /\ \A m \in j..(k - 1) : src[1] = "." \/ src[1] = s[m]
           /\ MatchHere(SubSeq(src, 3, Len(src)), s, k)
  ELSE /\ j <= Len(s)
       /\ (src[1] = "." \/ src[1] = s[j])
       /\ MatchHere(Tail(src), s, j + 1)

\* new RegExp(src, "i").test(s)
RegexTest(src, s) ==
  \E j \in 1..(Len(s) + 1) : MatchHere(toLowerCase(src), toLowerCase(s), j)

----------------------------------------------------------------------------
(* src/index.ts: searchNotes *)

MdExt == <<".", "m", "d">>

\* the last segment of a path: entry.name
BaseName(p) == Segs(p)[Len(Segs(p))]

\* lines 165-172
Matches(name, query) ==
  \/ Includes(toLowerCase(name), toLowerCase(query))
  \/ /\ ~RegexInvalid(StarToDotStar(query))
     /\ RegexTest(StarToDotStar(query), name)

\* fs.readdir(currentPath, {withFileTypes: true}): the entries' full real paths
readdir(f, currentPath) ==
  LET rp == realpath(f, currentPath)
  IN IF ~rp.ok THEN Err(rp.err)
     ELSE IF Lookup(f, rp.val).kind # "dir" THEN Err("ENOTDIR")
     ELSE IF ~Lookup(f, rp.val).listable THEN Err("EACCES")
     ELSE Ok(Children(f, rp.val))

\* search without its try/catch: a denied entry or a directory that cannot be
\* listed ends the whole search
RECURSIVE SearchDirAbort(_, _, _, _, _, _)
SearchDirAbort(f, basePath, currentPath, query, listing, todo) ==
  IF listing
    THEN LET entries == readdir(f, currentPath)
         IN IF ~entries.ok THEN Err(entries.err)
            ELSE SearchDirAbort(f, basePath, currentPath, query, FALSE, entries.val)
  ELSE IF todo = {} THEN Ok(<<>>)
  ELSE
    LET entry == CHOOSE e \in todo : TRUE
        name == BaseName(entry)
        fullPath == pathJoin(currentPath, name)
        rest == SearchDirAbort(f, basePath, currentPath, query, FALSE, todo \ {entry})
        valid == validatePath(f, fullPath)
        hit == IF EndsWith(name, MdExt) /\ Matches(name, query)
                 THEN <<ReplaceFirst(fullPath, basePath, <<>>)>>
               ELSE <<>>
        sub == IF Lookup(f, entry).kind = "dir"
                 THEN SearchDirAbort(f, basePath, fullPath, query, TRUE, {})
               ELSE Ok(<<>>)
    IN IF ~valid.ok THEN Err(valid.err)
       ELSE IF ~sub.ok THEN Err(sub.err)
       ELSE IF ~rest.ok THEN Err(rest.err)
       ELSE Ok(hit \o sub.val \o rest.val)

\* lines 155-187: search(basePath, currentPath); `todo` is what is left of the
\* entries of currentPath, `listing` says whether readdir is still to be done
RECURSIVE SearchDir(_, _, _, _, _, _)
SearchDir(f, basePath, currentPath, query, listing, todo) ==
  IF listing
    THEN LET entries == readdir(f, currentPath)
         IN IF ~entries.ok THEN Err(entries.err)
            ELSE SearchDir(f, basePath, currentPath, query, FALSE, entries.val)
  ELSE IF todo = {} THEN Ok(<<>>)
  ELSE
    LET entry == CHOOSE e \in todo : TRUE
        name == BaseName(entry)
        fullPath == pathJoin(currentPath, name)
        rest == SearchDir(f, basePath, currentPath, query, FALSE, todo \ {entry})
        valid == validatePath(f, fullPath)
        hit == IF EndsWith(name, MdExt) /\ Matches(name, query)
                 THEN <<ReplaceFirst(fullPath, basePath, <<>>)>>
               ELSE <<>>
        \* entry.isDirectory() is false for a symbolic link
        sub == IF Lookup(f, entry).kind = "dir"
                 THEN SearchDir(f, basePath, fullPath, query, TRUE, {})
               ELSE Ok(<<>>)
    IN IF ~valid.ok THEN rest                            \* catch: continue
       ELSE IF ~sub.ok THEN Ok(hit \o rest.val)          \* catch: continue
       ELSE Ok(hit \o sub.val \o rest.val)

\* lines 152-191
searchNotes(f, query) ==
  SearchDir(f, vaultDirectories[1], vaultDirectories[1], query, TRUE, {})

\* line 17
SEARCH_LIMIT == 200

----------------------------------------------------------------------------
(* What the client sends *)

P_a == <<"a", ".", "m", "d">>                        \* a note
P_B == <<"B", ".", "m", "d">>                        \* a note
P_at == <<"a", ".", "t">>                            \* a file that is no note
P_d == <<"d">>                                       \* a directory
P_dc == <<"d", "/", "c", ".", "m", "d">>             \* a note in a directory
P_n == <<"n", ".", "m", "d">>                        \* does not exist yet
P_en == <<"e", "/", "n", ".", "m", "d">>             \* its directory does not exist
P_hs == <<".", "h", "/", "s", ".", "m", "d">>        \* in a hidden directory
P_l == <<"l", ".", "m", "d">>                        \* a link to a file outside
P_ks == <<"k", "/", "s", ".", "m", "d">>             \* through a link to a directory outside
P_i == <<"i", ".", "m", "d">>                        \* a link to the note a.md
P_v2 == <<".", ".", "/", "v", "2", "/", "x", ".", "m", "d">>  \* beside the vault
P_o == <<".", ".", "/", "o", "/", "s", ".", "m", "d">>        \* outside the vault

\* the paths a write_note or update_note call is drawn from
ReqPaths == {P_a, P_at, P_n, P_en, P_hs, P_l, P_ks, P_i, P_v2, P_o}

\* the paths a read_notes list is drawn from
ReadPaths == {P_a, P_at, P_n, P_hs, P_l, P_v2}

Contents == {<<"1">>, <<"2">>}

Queries == {<<>>, <<"b">>, <<"a", "*", "d">>, <<"(">>}

\* the arguments object of a tools/call request; wellFormed = FALSE is one the
\* tool's zod schema rejects; "unset" is an optional field left out
Args(wf, paths, path, content, mode, cd, query) ==
  [wellFormed |-> wf, paths |-> paths, path |-> path, content |-> content,
   mode |-> mode, createDirectories |-> cd, query |-> query]

BadArgs == Args(FALSE, <<>>, <<>>, <<>>, "unset", "unset", <<>>)

RECURSIVE SeqsUpTo(_, _)
SeqsUpTo(S, n) ==
  IF n = 0 THEN {<<>>}
  ELSE LET shorter == SeqsUpTo(S, n - 1)
       IN shorter \cup {Append(q, x) : q \in shorter, x \in S}

ReadArgs ==
  {Args(TRUE, ps, <<>>, <<>>, "unset", "unset", <<>>) : ps \in SeqsUpTo(ReadPaths, MaxPaths)}
    \cup {BadArgs}

SearchArgs ==
  {Args(TRUE, <<>>, <<>>, <<>>, "unset", "unset", q) : q \in Queries} \cup {BadArgs}

WriteArgs ==
  {Args(TRUE, <<>>, p, c, "unset", cd, <<>>) :
     p \in ReqPaths, c \in Contents, cd \in {"true", "false", "unset"}} \cup {BadArgs}

UpdateArgs ==
  {Args(TRUE, <<>>, p, c, m, "unset", <<>>) :
     p \in ReqPaths, c \in Contents, m \in {"replace", "append", "prepend", "unset"}}
    \cup {BadArgs}

\* two clients updating the same few notes
ConcUpdateArgs ==
  {Args(TRUE, <<>>, p, c, m, "unset", <<>>) :
     p \in {P_a, P_n}, c \in Contents, m \in {"replace", "append", "prepend"}}

----------------------------------------------------------------------------
(* src/index.ts: the CallToolRequestSchema handler *)

\* the response of a call: isError with its error, or the result items
Response(isError, err, items, omitted) ==
  [isError |-> isError, err |-> err, items |-> items, omitted |-> omitted]

Failure(e) == Response(TRUE, e, <<>>, 0)
Success(items) == Response(FALSE, "none", items, 0)

\* the handler without its write gate
WriteDisabledNever(name, enabled) == FALSE

\* line 282
WriteDisabled(name, enabled) ==
  name \in {"write_note", "update_note"} /\ ~enabled

\* lines 205, 211: the defaults zod fills in
Parsed(args) ==
  [args EXCEPT !.mode = IF @ = "unset" THEN "replace" ELSE @,
               !.createDirectories = IF @ = "unset" THEN "false" ELSE @]

\* lines 293-305: one element of the read_notes batch
ReadOne(f, filePath) ==
  LET validPath == validatePath(f, pathJoin(vaultDirectories[1], filePath))
      content == readFile(f, validPath.val)
  IN IF ~validPath.ok
       THEN [path |-> filePath, ok |-> FALSE, content |-> <<>>, err |-> validPath.err,
             used |-> <<>>]
     ELSE IF ~content.ok
       THEN [path |-> filePath, ok |-> FALSE, content |-> <<>>, err |-> content.err,
             used |-> <<>>]
     ELSE [path |-> filePath, ok |-> TRUE, content |-> content.val, err |-> "none",
           used |-> validPath.val]

\* read_notes without the try/catch around one element: the first element
\* that fails rejects the whole Promise.all
ReadNotesAbort(f, args) ==
  IF ~args.wellFormed THEN Failure("InvalidArgument")
  ELSE IF \E i \in DOMAIN args.paths : ~ReadOne(f, args.paths[i]).ok
    THEN Failure("ReadFailed")
  ELSE Success([i \in DOMAIN args.paths |-> ReadOne(f, args.paths[i])])

\* lines 287-310
ReadNotes(f, args) ==
  IF ~args.wellFormed THEN Failure("InvalidArgument")
  ELSE Success([i \in DOMAIN args.paths |-> ReadOne(f, args.paths[i])])

\* lines 312-336
SearchNotes(f, args) ==
  IF ~args.wellFormed THEN Failure("InvalidArgument")
  ELSE LET results == searchNotes(f, args.query)
       IN IF ~results.ok THEN Failure(results.err)
          ELSE Response(FALSE, "none",
                        SubSeq(results.val, 1,
                               IF Len(results.val) > SEARCH_LIMIT
                                 THEN SEARCH_LIMIT ELSE Len(results.val)),
                        IF Len(results.val) > SEARCH_LIMIT
                          THEN Len(results.val) - SEARCH_LIMIT ELSE 0)

\* lines 282-284, 339-349 and 362-372: what write_note and update_note do
\* before their first file operation; trace lists the steps taken
BeginWrite(f, enabled, name, args) ==
  IF WriteDisabled(name, enabled)
    THEN [trace |-> <<"gate">>, res |-> Err("WriteDisabled")]
  ELSE IF ~args.wellFormed
    THEN [trace |-> <<"gate", "parse">>, res |-> Err("InvalidArgument")]
  ELSE IF ~EndsWith(args.path, MdExt)
    THEN [trace |-> <<"gate", "parse", "ext">>, res |-> Err("ExtensionRequired")]
  ELSE [trace |-> <<"gate", "parse", "ext", "validatePath">>,
        res |-> validatePath(f, pathJoin(vaultDirectories[1], args.path))]

\* lines 351-355: write_note's directory and file steps; val is the file
\* system they leave, also when the second of them fails
WriteNoteFinish(f, validPath, args) ==
  LET made == IF Parsed(args).createDirectories = "true"
                THEN ensureDirectory(f, pathDirname(validPath))
              ELSE Ok(f)
      written == writeFile(made.val, validPath, args.content)
  IN IF ~made.ok THEN [made EXCEPT !.val = f]
     ELSE IF ~written.ok THEN [written EXCEPT !.val = made.val]
     ELSE written

\* the template strings without their newline
AssembleContentNoNewline(mode, existingContent, content) ==
  IF mode = "append" THEN existingContent \o content
  ELSE content \o existingContent

\* an update that forgets what it read
AssembleContentDropsExisting(mode, existingContent, content) == content

\* lines 377-379
AssembleContent(mode, existingContent, content) ==
  IF mode = "append" THEN existingContent \o <<NL>> \o content
  ELSE content \o <<NL>> \o existingContent

\* an update that takes a note it cannot read for an empty one
UpdateNoteReadLenient(f, validPath, args) ==
  IF Parsed(args).mode # "replace"
    THEN LET existingContent == readFile(f, validPath)
         IN Ok(AssembleContent(Parsed(args).mode,
                               IF existingContent.ok THEN existingContent.val ELSE <<>>,
                               args.content))
  ELSE Ok(args.content)

\* lines 374-382: the content update_note is going to write
UpdateNoteRead(f, validPath, args) ==
  IF Parsed(args).mode # "replace"
    THEN LET existingContent == readFile(f, validPath)
         IN IF ~existingContent.ok THEN Err(existingContent.err)
            ELSE Ok(AssembleContent(Parsed(args).mode, existingContent.val, args.content))
  ELSE Ok(args.content)

----------------------------------------------------------------------------
(* State *)

Slots == {1, 2}

InVault(p) == VaultPath \o <<Sep>> \o p

OutsideDir == <<"/", "o">>
OutsideFile == <<"/", "o", "/", "s", ".", "m", "d">>
SiblingDir == <<"/", "v", "2">>
SiblingFile == <<"/", "v", "2", "/", "x", ".", "m", "d">>

\* the vault and its surroundings when the server starts; dnode is the node
\* of the vault's directory d
InitFs(dnode) ==
  (<<Sep>> :> Dir) @@ (VaultPath :> Dir)
    @@ (InVault(P_a) :> File(<<"e">>))
    @@ (InVault(P_B) :> File(<<"f">>))
    @@ (InVault(P_at) :> File(<<"t">>))
    @@ (InVault(P_d) :> dnode)
    @@ (InVault(P_dc) :> File(<<"c">>))
    @@ (InVault(<<".", "h">>) :> Dir)
    @@ (InVault(P_hs) :> File(<<"h">>))
    @@ (InVault(P_l) :> Link(OutsideFile))
    @@ (InVault(<<"k">>) :> Link(OutsideDir))
    @@ (InVault(P_i) :> Link(InVault(P_a)))
    @@ (SiblingDir :> Dir) @@ (SiblingFile :> File(<<"x">>))
    @@ (OutsideDir :> Dir) @@ (OutsideFile :> File(<<"s">>))

\* a slot's call: pc is idle, read (update_note is about to read the note),
\* write (the tool is about to write) or done (resp is the answer).  trace,
\* io, fs0, readVer and wroteVer record what the call did: the steps it took,
\* the files it read or wrote, the file system it started on, and the number
\* of writes that had happened when it read and when it had written.
Call(pc, tool, args, trace, validPath, finalContent, resp, io, fs0, readVer, wroteVer) ==
  [pc |-> pc, tool |-> tool, args |-> args, trace |-> trace, validPath |-> validPath,
   finalContent |-> finalContent, resp |-> resp, io |-> io, fs0 |-> fs0,
   readVer |-> readVer, wroteVer |-> wroteVer]

Idle == Call("idle", "none", BadArgs, <<>>, <<>>, <<>>, Failure("none"), {}, <<>>, 0, 0)

\* lines 66-75 have checked that the vault is a directory
Init ==
  /\ fs \in {InitFs(Dir), InitFs(DirNoList)}
  /\ enableWrite \in BOOLEAN
  /\ calls = [c \in Slots |-> Idle]
  /\ ncalls = 0
  /\ nwrites = 0

Free(c) == calls[c].pc = "idle" /\ ncalls < MaxCalls

Io(op, req, path) == [op |-> op, req |-> req, path |-> path]

----------------------------------------------------------------------------
(* Actions: a tool call up to its first wait on the file system after path  *)
(* validation, and each later file operation of it                          *)

OkSlots(items) == {j \in DOMAIN items : items[j].ok}

\* the files a read_notes batch has read
ReadIo(items) == {Io("read", items[i].path, items[i].used) : i \in OkSlots(items)}

\* lines 287-310
CallReadNotes(c) ==
  /\ Free(c)
  /\ \E args \in ReadArgs :
       LET resp == ReadNotes(fs, args)
       IN calls' = [calls EXCEPT ![c] =
            Call("done", "read_notes", args, <<"gate", "parse">>, <<>>, <<>>,
                 resp, ReadIo(resp.items), fs, nwrites, nwrites)]
  /\ ncalls' = ncalls + 1
  /\ UNCHANGED <<fs, enableWrite, nwrites>>

\* lines 312-336
CallSearchNotes(c) ==
  /\ Free(c)
  /\ \E args \in SearchArgs :
       calls' = [calls EXCEPT ![c] =
         Call("done", "search_notes", args, <<"gate", "parse">>, <<>>, <<>>,
              SearchNotes(fs, args), {}, fs, nwrites, nwrites)]
  /\ ncalls' = ncalls + 1
  /\ UNCHANGED <<fs, enableWrite, nwrites>>

\* lines 338-349
CallWriteNote(c) ==
  /\ Free(c)
  /\ \E args \in WriteArgs :
       LET b == BeginWrite(fs, enableWrite, "write_note", args)
       IN calls' = [calls EXCEPT ![c] =
            IF b.res.ok
              THEN Call("write", "write_note", args, b.trace, b.res.val, args.content,
                        Failure("none"), {}, fs, nwrites, nwrites)
            ELSE Call("done", "write_note", args, b.trace, <<>>, <<>>,
                      Failure(b.res.err), {}, fs, nwrites, nwrites)]
  /\ ncalls' = ncalls + 1
  /\ UNCHANGED <<fs, enableWrite, nwrites>>

\* lines 351-358
WriteNoteWrite(c) ==
  /\ calls[c].pc = "write" /\ calls[c].tool = "write_note"
  /\ LET w == WriteNoteFinish(fs, calls[c].validPath, calls[c].args)
     IN /\ fs' = w.val
        /\ nwrites' = IF w.ok THEN nwrites + 1 ELSE nwrites
        /\ calls' = [calls EXCEPT ![c] =
             [@ EXCEPT !.pc = "done",
                       !.trace = @ \o <<"writeFile">>,
                       !.resp = IF w.ok THEN Success(<<>>) ELSE Failure(w.err),
                       !.io = IF w.ok
                                THEN {Io("write", calls[c].args.path, calls[c].validPath)}
                              ELSE {},
                       !.wroteVer = nwrites']]
  /\ UNCHANGED <<enableWrite, ncalls>>

\* lines 361-372, and 380-382 for a replace, which reads nothing
CallUpdateNote(c, A) ==
  /\ Free(c)
  /\ \E args \in A :
       LET b == BeginWrite(fs, enableWrite, "update_note", args)
       IN calls' = [calls EXCEPT ![c] =
            IF ~b.res.ok
              THEN Call("done", "update_note", args, b.trace, <<>>, <<>>,
                        Failure(b.res.err), {}, fs, nwrites, nwrites)
            ELSE IF Parsed(args).mode = "replace"
              THEN Call("write", "update_note", args, b.trace, b.res.val,
                        UpdateNoteRead(fs, b.res.val, args).val,
                        Failure("none"), {}, fs, nwrites, nwrites)
            ELSE Call("read", "update_note", args, b.trace, b.res.val, <<>>,
                      Failure("none"), {}, fs, nwrites, nwrites)]
  /\ ncalls' = ncalls + 1
  /\ UNCHANGED <<fs, enableWrite, nwrites>>

\* lines 375-379
UpdateNoteReadStep(c) ==
  /\ calls[c].pc = "read" /\ calls[c].tool = "update_note"
  /\ LET r == UpdateNoteRead(fs, calls[c].validPath, calls[c].args)
     IN calls' = [calls EXCEPT ![c] =
          IF r.ok
            THEN [@ EXCEPT !.pc = "write",
                           !.trace = @ \o <<"readFile">>,
                           !.finalContent = r.val,
                           !.io = {Io("read", calls[c].args.path, calls[c].validPath)},
                           !.readVer = nwrites]
          ELSE [@ EXCEPT !.pc = "done",
                         !.trace = @ \o <<"readFile">>,
                         !.resp = Failure(r.err)]]
  /\ UNCHANGED <<fs, enableWrite, ncalls, nwrites>>

\* lines 384-387
UpdateNoteWrite(c) ==
  /\ calls[c].pc = "write" /\ calls[c].tool = "update_note"
  /\ LET w == writeFile(fs, calls[c].validPath, calls[c].finalContent)
     IN /\ fs' = IF w.ok THEN w.val ELSE fs
        /\ nwrites' = IF w.ok THEN nwrites + 1 ELSE nwrites
        /\ calls' = [calls EXCEPT ![c] =
             [@ EXCEPT !.pc = "done",
                       !.trace = @ \o <<"writeFile">>,
                       !.resp = IF w.ok THEN Success(<<>>) ELSE Failure(w.err),
                       !.io = IF w.ok
                                THEN @ \cup {Io("write", calls[c].args.path,
                                                calls[c].validPath)}
                              ELSE @,
                       !.wroteVer = nwrites']]
  /\ UNCHANGED <<enableWrite, ncalls>>

\* line 277: the handler's promise settles and the answer goes to the client
Return(c) ==
  /\ calls[c].pc = "done"
  /\ calls' = [calls EXCEPT ![c] = Idle]
  /\ UNCHANGED <<fs, enableWrite, ncalls, nwrites>>

\* one client, one call at a time, all four tools
Next ==
  \/ Return(1)
  \/ CallReadNotes(1)
  \/ CallSearchNotes(1)
  \/ CallWriteNote(1)
  \/ WriteNoteWrite(1)
  \/ CallUpdateNote(1, UpdateArgs)
  \/ UpdateNoteReadStep(1)
  \/ UpdateNoteWrite(1)

Spec == Init /\ [][Next]_vars

\* two clients whose update_note calls share the event loop
NextConc ==
  \E c \in Slots :
    \/ CallUpdateNote(c, ConcUpdateArgs)
    \/ UpdateNoteReadStep(c)
    \/ UpdateNoteWrite(c)
    \/ Return(c)

SpecConc == Init /\ [][NextConc]_vars

----------------------------------------------------------------------------
(* Vocabulary of the properties *)

Done(c) == calls[c].pc = "done"

WriteTools == {"write_note", "update_note"}

\* the path a handler hands to validatePath for the client's path p
Full(p) == pathJoin(vaultDirectories[1], p)

\* p is the vault directory or below it in the directory tree
Under(p) ==
  LET root == Segs(VaultPath)
      s == Segs(p)
  IN Len(s) >= Len(root) /\ SubSeq(s, 1, Len(root)) = root

\* where an operation on path p lands: its real path, or for a file that
\* does not exist yet the real path of its directory and its name
RealLocation(f, p) ==
  IF realpath(f, p).ok THEN realpath(f, p).val
  ELSE realpath(f, pathDirname(p)).val \o <<Sep>> \o BaseName(p)

\* p passes through no symbolic link
NoLink(f, p) == RealLocation(f, p) = p

----------------------------------------------------------------------------
(* C1 *)

\* C1: no tool reads or writes a file through a path that lies textually
\* inside the vault and is, or passes through, a symbolic link whose real
\* target is outside the vault: validatePath rejects it (SymlinkEscape).
C1_SymlinkEscapeRejected ==
  \A c \in Slots : \A e \in calls[c].io :
    ~ /\ Under(Full(e.req))
      /\ realpath(calls[c].fs0, Full(e.req)).ok
      /\ ~Under(realpath(calls[c].fs0, Full(e.req)).val)

----------------------------------------------------------------------------
(* C2 *)

\* C2: confinement.  Every file a tool reads or writes lies in the vault
\* directory or below it; in particular /v2/x.md, reached as ../v2/x.md, is
\* not accepted for the vault /v.  Stated for the paths that pass through no
\* symbolic link (those that do are C1's).
C2_Confined ==
  \A c \in Slots : \A e \in calls[c].io :
    NoLink(calls[c].fs0, Full(e.req)) => Under(RealLocation(calls[c].fs0, e.path))

----------------------------------------------------------------------------
(* C3 *)

\* C3: with writes disabled, every write_note and update_note call, whatever
\* its arguments, fails with WriteDisabled, and the gate is the only step it
\* takes: no argument parsing, no extension check, no validatePath, no file
\* operation, no change of the file system.
C3_WriteDisabledFirst ==
  \A c \in Slots :
    (calls[c].tool \in WriteTools /\ ~enableWrite) =>
      /\ Done(c)
      /\ calls[c].resp.isError /\ calls[c].resp.err = "WriteDisabled"
      /\ calls[c].trace = <<"gate">>
      /\ calls[c].io = {}
      /\ fs = calls[c].fs0

\* a refused update_note whose arguments are malformed, and a refused
\* write_note of a well-formed request
C3_Witness ==
  /\ ~enableWrite
  /\ \E c \in Slots :
       /\ Done(c) /\ calls[c].tool \in WriteTools
       /\ calls[c].resp.err = "WriteDisabled"
       /\ \/ ~calls[c].args.wellFormed
          \/ calls[c].args.path = P_o

----------------------------------------------------------------------------
(* C4 *)

\* C4: the .md extension is enforced for all operations: every file that
\* read_notes, write_note or update_note reads or writes was requested by a
\* path ending in ".md".
C4_MdOnly ==
  \A c \in Slots : \A e \in calls[c].io : EndsWith(e.req, MdExt)

----------------------------------------------------------------------------
(* C5 *)

\* the request of call c names a note inside the vault whose directory does
\* not exist when the call starts
MissingParent(c) ==
  /\ calls[c].args.wellFormed
  /\ EndsWith(calls[c].args.path, MdExt)
  /\ Under(Full(calls[c].args.path))
  /\ \A i \in DOMAIN Split(Full(calls[c].args.path)) :
       ~StartsWith(Split(Full(calls[c].args.path))[i], <<".">>)
  /\ ~realpath(calls[c].fs0, pathDirname(Full(calls[c].args.path))).ok

\* C5: with writes enabled, write_note with createDirectories = true on such
\* a note creates the directory and writes the note: the call succeeds and
\* the file holds exactly the content; with createDirectories = false the
\* call fails and creates nothing.
C5_CreateDirectories ==
  \A c \in Slots :
    (Done(c) /\ calls[c].tool = "write_note" /\ enableWrite /\ MissingParent(c)) =>
      IF calls[c].args.createDirectories = "true"
        THEN /\ ~calls[c].resp.isError
             /\ readFile(fs, Full(calls[c].args.path)) = Ok(calls[c].args.content)
        ELSE calls[c].resp.isError /\ fs = calls[c].fs0

----------------------------------------------------------------------------
(* C6 *)

\* the mode of call c, replace when the request names none
ModeOf(c) == IF calls[c].args.mode = "unset" THEN "replace" ELSE calls[c].args.mode

\* the content the claim gives update_note's result, from the old content E
Expected(mode, E, C) ==
  CASE mode = "append" -> E \o <<NL>> \o C
    [] mode = "prepend" -> C \o <<NL>> \o E
    [] OTHER -> C

\* C6: a successful update_note on an existing note with content E leaves the
\* note holding E, newline, C for append; C, newline, E for prepend; C for
\* replace, which is the default mode; no other file or directory changes.
C6_UpdateModes ==
  \A c \in Slots :
    (Done(c) /\ calls[c].tool = "update_note" /\ ~calls[c].resp.isError
       /\ readFile(calls[c].fs0, Full(calls[c].args.path)).ok) =>
      LET full == Full(calls[c].args.path)
          E == readFile(calls[c].fs0, full).val
          target == realpath(calls[c].fs0, full).val
      IN /\ readFile(fs, full) = Ok(Expected(ModeOf(c), E, calls[c].args.content))
         /\ \A p \in (DOMAIN fs \cup DOMAIN calls[c].fs0) \ {target} :
              Lookup(fs, p) = Lookup(calls[c].fs0, p)

\* an append of "1" to the note a.md, which held "e", has succeeded
C6_Witness ==
  \E c \in Slots :
    /\ Done(c) /\ calls[c].tool = "update_note" /\ ~calls[c].resp.isError
    /\ calls[c].args.path = P_a
    /\ calls[c].args.mode = "append"
    /\ readFile(fs, InVault(P_a)).val = <<"e", NL, "1">>

----------------------------------------------------------------------------
(* C7 *)

\* C7: read_notes on a list of n paths answers with n slots in request
\* order, one per path: the content for a path that passes validation and
\* is readable, an inline error for a path that is denied or cannot be read;
\* the call itself is not reported as an error however many paths fail.
C7_ReadSlots ==
  \A c \in Slots :
    (Done(c) /\ calls[c].tool = "read_notes" /\ calls[c].args.wellFormed) =>
      LET paths == calls[c].args.paths
          items == calls[c].resp.items
          f0 == calls[c].fs0
      IN /\ ~calls[c].resp.isError
         /\ Len(items) = Len(paths)
         /\ \A i \in DOMAIN paths :
              /\ items[i].path = paths[i]
              /\ items[i].ok <=>
                   (validatePath(f0, Full(paths[i])).ok /\ readFile(f0, Full(paths[i])).ok)
              /\ items[i].ok => items[i].content = readFile(f0, Full(paths[i])).val
              /\ ~items[i].ok => items[i].err # "none"

\* a batch of two whose first path is denied and whose second is read
C7_Witness ==
  \E c \in Slots :
    /\ Done(c) /\ calls[c].tool = "read_notes"
    /\ calls[c].args.paths = <<P_hs, P_a>>
    /\ ~calls[c].resp.isError
    /\ ~calls[c].resp.items[1].ok /\ calls[c].resp.items[1].err = "HiddenPathDenied"
    /\ calls[c].resp.items[2].ok /\ calls[c].resp.items[2].content = <<"e">>

----------------------------------------------------------------------------
(* C8 *)

\* the directories strictly between the vault and the entry p, and p itself
Chain(p) ==
  {SubSeq(p, 1, k) : k \in {j \in (Len(VaultPath) + 2)..Len(p) : j = Len(p) \/ p[j + 1] = Sep}}

\* the entry p of file system f is reached by the walk: validatePath allows
\* it and every directory above it, and each of those is a real directory
\* that can be listed
Reached(f, p) ==
  /\ StartsWith(p, VaultPath \o <<Sep>>)
  /\ \A a \in Chain(p) :
       /\ validatePath(f, a).ok
       /\ a # p => (Lookup(f, a).kind = "dir" /\ Lookup(f, a).listable)

\* what search_notes owes for query q: the reached entries named *.md that
\* match, relative to the vault
Owed(f, q) ==
  {Slice(p, Len(VaultPath)) :
     p \in {x \in DOMAIN f : /\ Reached(f, x)
                             /\ EndsWith(BaseName(x), MdExt)
                             /\ Matches(BaseName(x), q)}}

Range(seq) == {seq[i] : i \in DOMAIN seq}

\* C8: search_notes skips an entry validatePath denies and a subdirectory
\* that cannot be listed, each with its subtree, and nothing else: the call
\* does not fail, every matching note outside those subtrees is returned,
\* once, and nothing from inside them is.
C8_SearchSkips ==
  \A c \in Slots :
    (Done(c) /\ calls[c].tool = "search_notes" /\ calls[c].args.wellFormed) =>
      /\ ~calls[c].resp.isError
      /\ Range(calls[c].resp.items) = Owed(calls[c].fs0, calls[c].args.query)
      /\ Cardinality(Range(calls[c].resp.items)) = Len(calls[c].resp.items)
      /\ calls[c].resp.omitted = 0

\* a search for everything in a vault with a hidden directory and a
\* directory that cannot be listed, both holding notes, has answered
C8_Witness ==
  \E c \in Slots :
    /\ Done(c) /\ calls[c].tool = "search_notes" /\ calls[c].args.query = <<>>
    /\ ~calls[c].fs0[InVault(P_d)].listable
    /\ InVault(P_dc) \in DOMAIN calls[c].fs0
    /\ InVault(P_hs) \in DOMAIN calls[c].fs0
    /\ <<Sep>> \o P_a \in Range(calls[c].resp.items)
    /\ <<Sep>> \o P_B \in Range(calls[c].resp.items)
    /\ <<Sep>> \o P_dc \notin Range(calls[c].resp.items)
    /\ <<Sep>> \o P_hs \notin Range(calls[c].resp.items)

----------------------------------------------------------------------------
(* C9 *)

\* call c is an append or prepend that has reported success
Added(c) ==
  /\ Done(c) /\ calls[c].tool = "update_note" /\ ~calls[c].resp.isError
  /\ calls[c].args.mode \in {"append", "prepend"}

\* C9: an append or prepend reads the note and then writes it, as two steps
\* of its own, and writes what it assembled from what it read.  When of two
\* such calls on one note the second reads what the first wrote and nothing
\* is written in between or after, the note contains both contents.
C9_ReadThenWrite ==
  \A c1 \in Slots :
    Added(c1) =>
      /\ calls[c1].trace = <<"gate", "parse", "ext", "validatePath", "readFile", "writeFile">>
      /\ calls[c1].readVer < calls[c1].wroteVer
      /\ \A c2 \in Slots \ {c1} :
           (/\ Added(c2)
            /\ calls[c2].validPath = calls[c1].validPath
            /\ calls[c2].readVer = calls[c1].wroteVer
            /\ calls[c2].wroteVer = calls[c2].readVer + 1
            /\ nwrites = calls[c2].wroteVer) =>
             /\ Includes(readFile(fs, calls[c1].validPath).val, calls[c1].args.content)
             /\ Includes(readFile(fs, calls[c1].validPath).val, calls[c2].args.content)

\* a lost update: two appends to one note have both reported success, the
\* second read the note before the first wrote it and wrote it afterwards,
\* and the note holds the second content without the first
C9_Witness ==
  \E c1 \in Slots : \E c2 \in Slots \ {c1} :
    /\ Added(c1) /\ Added(c2)
    /\ calls[c1].args.mode = "append" /\ calls[c2].args.mode = "append"
    /\ calls[c1].validPath = calls[c2].validPath
    /\ calls[c2].readVer < calls[c1].wroteVer
    /\ calls[c1].wroteVer < calls[c2].wroteVer
    /\ nwrites = calls[c2].wroteVer
    /\ Includes(readFile(fs, calls[c1].validPath).val, calls[c2].args.content)
    /\ ~Includes(readFile(fs, calls[c1].validPath).val, calls[c1].args.content)

----------------------------------------------------------------------------
(* C10 *)

\* C10: a write_note or update_note call that answers with an error has left
\* the file system as it found it: no file or directory created, no content
\* changed.  It does answer with an error when the path does not end in
\* ".md" (before validatePath is called), when validatePath denies the path,
\* and when an append or prepend finds no file to read.
C10_ErrorChangesNothing ==
  \A c \in Slots :
    (Done(c) /\ calls[c].tool \in WriteTools) =>
      LET a == calls[c].args
          f0 == calls[c].fs0
          valid == validatePath(f0, Full(a.path))
      IN /\ calls[c].resp.isError => fs = f0
         /\ (enableWrite /\ a.wellFormed /\ ~EndsWith(a.path, MdExt)) =>
              /\ calls[c].resp.isError /\ calls[c].resp.err = "ExtensionRequired"
              /\ calls[c].trace = <<"gate", "parse", "ext">>
         /\ (enableWrite /\ a.wellFormed /\ EndsWith(a.path, MdExt) /\ ~valid.ok) =>
              calls[c].resp.isError /\ calls[c].resp.err = valid.err
         /\ (/\ enableWrite /\ a.wellFormed /\ EndsWith(a.path, MdExt) /\ valid.ok
             /\ calls[c].tool = "update_note" /\ a.mode \in {"append", "prepend"}
             /\ ~readFile(f0, valid.val).ok) =>
              calls[c].resp.isError

\* an append to the note n.md, which does not exist, has failed at its read
C10_Witness ==
  \E c \in Slots :
    /\ Done(c) /\ calls[c].tool = "update_note" /\ enableWrite
    /\ calls[c].args.path = P_n /\ calls[c].args.mode = "append"
    /\ calls[c].trace = <<"gate", "parse", "ext", "validatePath", "readFile">>
    /\ calls[c].resp.isError /\ calls[c].resp.err = "ENOENT"
    /\ InVault(P_n) \notin DOMAIN fs

====
